---- MODULE Spec2Model ----
(***************************************************************************)
(* Model of duplicados_ultra_optimizado.py: the column resolver            *)
(* (buscar_columna) and the duplicate-resolution engine                    *)
(* (procesar_duplicados_optimizado).                                       *)
(*                                                                         *)
(* A column label is a sequence of one-character strings, so that strip,   *)
(* lower, replace and the substring test are computed character by         *)
(* character.  A table is [cols, rows]; a row is [idx, celdas], idx being  *)
(* the pandas index label the row carries through sort and filter.         *)
(* A cell is a token: 1..MaxFecha are texts that parse as dates (ordered   *)
(* as the dates are), Texto is a text that is no date, NaT is the missing  *)
(* value pd.to_datetime(errors='coerce') produces.                         *)
(***************************************************************************)
EXTENDS Integers, Sequences, FiniteSets, TLC

VARIABLES df, pc, run1, run2, columnas, candidatos, hallado

vars == <<df, pc, run1, run2, columnas, candidatos, hallado>>

(***************************************************************************)
(* Bounds of the model.                                                    *)
(***************************************************************************)
MaxRows == 3
MaxFecha == 2
MaxRowsAncho == 1
MaxCandidatos == 2

(***************************************************************************)
(* Cell tokens.                                                            *)
(***************************************************************************)
NaT == 0
Texto == -1

Celdas == {Texto} \cup (1..MaxFecha)

(***************************************************************************)
(* Python str operations used by the code.                                 *)
(***************************************************************************)
Mayusculas == <<"A", "B", "C", "D", "E", "F", "G", "H", "I", "J", "K", "L", "M",
                "N", "O", "P", "Q", "R", "S", "T", "U", "V", "W", "X", "Y", "Z">>
Minusculas == <<"a", "b", "c", "d", "e", "f", "g", "h", "i", "j", "k", "l", "m",
                "n", "o", "p", "q", "r", "s", "t", "u", "v", "w", "x", "y", "z">>

EsEspacio(c) == c \in {" ", "\t", "\n"}

RECURSIVE lstrip(_)
lstrip(s) == IF s # <<>> /\ EsEspacio(Head(s)) THEN lstrip(Tail(s)) ELSE s

RECURSIVE rstrip(_)
rstrip(s) ==
  IF s # <<>> /\ EsEspacio(s[Len(s)]) THEN rstrip(SubSeq(s, 1, Len(s) - 1)) ELSE s

strip(s) == rstrip(lstrip(s))

\* str.lower() on one character: a table over the upper-case letters.
MinusculaDe ==
  [c \in {Mayusculas[i] : i \in 1..Len(Mayusculas)} |->
     Minusculas[CHOOSE i \in 1..Len(Mayusculas) : Mayusculas[i] = c]]

lower_char(c) == IF c \in DOMAIN MinusculaDe THEN MinusculaDe[c] ELSE c

lower(s) == [i \in 1..Len(s) |-> lower_char(s[i])]

\* Python's `sub in s` on strings.
contiene(sub, s) ==
  \E i \in 0..(Len(s) - Len(sub)) : \A k \in 1..Len(sub) : s[i + k] = sub[k]

\* s.replace(' ', '')
quitar_espacios(s) == SelectSeq(s, LAMBDA c : c # " ")

normalizar_nombre_columna(nombre) == lower(strip(nombre))

(***************************************************************************)
(* buscar_columna: columns outermost, candidates innermost, first hit      *)
(* returned.  The result is [hay, col]: hay = FALSE is Python's None.      *)
(***************************************************************************)
Ninguno == [hay |-> FALSE, col |-> <<>>]

coincide(col_normalizada, posible_normalizado) ==
  \/ contiene(posible_normalizado, col_normalizada)
  \/ contiene(col_normalizada, posible_normalizado)
  \/ quitar_espacios(posible_normalizado) = quitar_espacios(col_normalizada)

RECURSIVE algun_posible(_, _, _)
algun_posible(col_normalizada, nombres_posibles, j) ==
  IF j > Len(nombres_posibles) THEN FALSE
  ELSE IF coincide(col_normalizada, normalizar_nombre_columna(nombres_posibles[j]))
       THEN TRUE
       ELSE algun_posible(col_normalizada, nombres_posibles, j + 1)

RECURSIVE buscar_desde(_, _, _)
buscar_desde(columns, nombres_posibles, i) ==
  IF i > Len(columns) THEN Ninguno
  ELSE IF algun_posible(normalizar_nombre_columna(columns[i]), nombres_posibles, 1)
       THEN [hay |-> TRUE, col |-> columns[i]]
       ELSE buscar_desde(columns, nombres_posibles, i + 1)

\* The loops exchanged: the first candidate that matches anything decides.
RECURSIVE buscar_por_candidato(_, _, _)
buscar_por_candidato(columns, nombres_posibles, j) ==
  IF j > Len(nombres_posibles) THEN Ninguno
  ELSE LET p == normalizar_nombre_columna(nombres_posibles[j])
           hits == {i \in 1..Len(columns) :
                      coincide(normalizar_nombre_columna(columns[i]), p)}
       IN IF hits # {}
          THEN [hay |-> TRUE,
                col |-> columns[CHOOSE i \in hits : \A k \in hits : i <= k]]
          ELSE buscar_por_candidato(columns, nombres_posibles, j + 1)

buscar_columna_candidato_primero(columns, nombres_posibles) ==
  buscar_por_candidato(columns, nombres_posibles, 1)

\* The first column returned when nothing matches.
buscar_columna_o_primera(columns, nombres_posibles) ==
  LET r == buscar_desde(columns, nombres_posibles, 1)
  IN IF ~r.hay /\ columns # <<>> THEN [hay |-> TRUE, col |-> columns[1]] ELSE r

buscar_columna(columns, nombres_posibles) ==
  buscar_desde(columns, nombres_posibles, 1)

\* Python truthiness of the returned label: None and '' are both falsy.
es_falsy(r) == ~r.hay \/ r.col = <<>>

(***************************************************************************)
(* Candidate lists of procesar_duplicados_optimizado and the two labels    *)
(* it renames the resolved columns to.                                     *)
(***************************************************************************)
CANDIDATOS_DOCUMENTO ==
  << <<"d", "o", "c", "t", "o", " ", "i", "d", "e", "n", "t">>,
     <<"d", "o", "c", "u", "m", "e", "n", "t", "o", " ", "i", "d", "e", "n", "t", "i", "d", "a", "d">>,
     <<"d", "o", "c", "t", "o", "_", "i", "d", "e", "n", "t">>,
     <<"d", "o", "c", "u", "m", "e", "n", "t", "o">>,
     <<"c", "e", "d", "u", "l", "a">>,
     <<"d", "n", "i">>,
     <<"i", "d">>,
     <<"i", "d", "e", "n", "t", "i", "f", "i", "c", "a", "c", "i", "o", "n">> >>

CANDIDATOS_FECHA ==
  << <<"f", " ", "i", "n", "g", "r", "e", "s", "o">>,
     <<"f", "e", "c", "h", "a", " ", "i", "n", "g", "r", "e", "s", "o">>,
     <<"f", "_", "i", "n", "g", "r", "e", "s", "o">>,
     <<"f", "e", "c", "h", "a", "_", "i", "n", "g", "r", "e", "s", "o">>,
     <<"f", "e", "c", "h", "a">>,
     <<"d", "a", "t", "e">>,
     <<"i", "n", "g", "r", "e", "s", "o">> >>

DOC_ID == <<"d", "o", "c", "_", "i", "d">>
FECHA == <<"f", "e", "c", "h", "a">>

(***************************************************************************)
(* pandas operations used by the engine.                                   *)
(***************************************************************************)
\* df.rename(columns={viejo: nuevo}): every column so labelled; none is no error.
rename(cols, viejo, nuevo) ==
  [i \in 1..Len(cols) |-> IF cols[i] = viejo THEN nuevo ELSE cols[i]]

cuenta(cols, etiqueta) == Cardinality({i \in 1..Len(cols) : cols[i] = etiqueta})

indice(cols, etiqueta) == CHOOSE i \in 1..Len(cols) : cols[i] = etiqueta

\* pd.to_datetime(..., errors='coerce') on one cell.
to_datetime(v) == IF v >= 1 THEN v ELSE NaT

convertir_fechas(rows, f) ==
  [k \in 1..Len(rows) |-> [rows[k] EXCEPT !.celdas[f] = to_datetime(@)]]

\* df.duplicated(subset=['doc_id'], keep=False): the marked positions.
duplicated(rows, d) ==
  {k \in 1..Len(rows) :
     \E j \in 1..Len(rows) : j # k /\ rows[j].celdas[d] = rows[k].celdas[d]}

\* Series.nunique(): missing values are not counted.
nunique(rows, d, marcados) == Cardinality({rows[k].celdas[d] : k \in marcados} \ {NaT})

\* Key order of sort_values(['doc_id', 'fecha'], ascending=[True, False],
\* na_position='last').
antes_doc(a, b) == a # NaT /\ (b = NaT \/ a < b)

antes_fecha_ascendente(a, b) == a # NaT /\ (b = NaT \/ a < b)

antes_fecha(a, b) == a # NaT /\ (b = NaT \/ a > b)

precede(r1, r2, d, f) ==
  \/ antes_doc(r1.celdas[d], r2.celdas[d])
  \/ /\ r1.celdas[d] = r2.celdas[d]
     /\ antes_fecha(r1.celdas[f], r2.celdas[f])

\* Ties placed in reverse source order: what an unstable sort may do.
posicion_inestable(rows, i, d, f) ==
  1 + Cardinality({j \in 1..Len(rows) :
                     \/ precede(rows[j], rows[i], d, f)
                     \/ j > i /\ ~precede(rows[i], rows[j], d, f)})

\* The place of row i after the sort: rows with a smaller key come before it,
\* and so do the rows of equal key that stand before it (lexsort is stable).
posicion(rows, i, d, f) ==
  1 + Cardinality({j \in 1..Len(rows) :
                     \/ precede(rows[j], rows[i], d, f)
                     \/ j < i /\ ~precede(rows[i], rows[j], d, f)})

sort_values(rows, d, f) ==
  LET lugar == [i \in 1..Len(rows) |-> posicion(rows, i, d, f)]
  IN [k \in 1..Len(rows) |-> rows[CHOOSE i \in 1..Len(rows) : lugar[i] = k]]

\* keep='last' in place of keep='first'.
drop_duplicates_ultimo(rows, d) ==
  LET sel == SelectSeq([k \in 1..Len(rows) |-> [r |-> rows[k], k |-> k]],
                       LAMBDA x : \A j \in (x.k + 1)..Len(rows) :
                                     rows[j].celdas[d] # x.r.celdas[d])
  IN [i \in 1..Len(sel) |-> sel[i].r]

\* Only a row that repeats the row just before it is dropped.
drop_duplicates_consecutivos(rows, d) ==
  LET sel == SelectSeq([k \in 1..Len(rows) |-> [r |-> rows[k], k |-> k]],
                       LAMBDA x : x.k = 1 \/ rows[x.k - 1].celdas[d] # x.r.celdas[d])
  IN [i \in 1..Len(sel) |-> sel[i].r]

\* df.drop_duplicates(subset=['doc_id'], keep='first'): a row stays when no
\* row before it has its doc_id.
drop_duplicates(rows, d) ==
  LET sel == SelectSeq([k \in 1..Len(rows) |-> [r |-> rows[k], k |-> k]],
                       LAMBDA x : \A j \in 1..(x.k - 1) :
                                     rows[j].celdas[d] # x.r.celdas[d])
  IN [i \in 1..Len(sel) |-> sel[i].r]

(***************************************************************************)
(* procesar_duplicados_optimizado.  The value returned and everything the  *)
(* call shows are gathered in one record: ok = FALSE is `return None`;     *)
(* log lists the st.* calls in the order they are made.                    *)
(***************************************************************************)
TablaVacia == [cols |-> <<>>, rows |-> <<>>]

SinEstadisticas ==
  [originales |-> 0, finales |-> 0, eliminados |-> 0, pct_num |-> 0, pct_den |-> 1]

SinCorrida ==
  [ok |-> FALSE, tabla |-> TablaVacia, log |-> <<>>, info_columnas |-> <<>>,
   col_documento |-> Ninguno, col_fecha |-> Ninguno,
   docs_duplicados |-> 0, duplicados_antes |-> 0, stats |-> SinEstadisticas]

\* porcentaje, as the exact fraction num / den.
porcentaje(eliminados, registros_originales) ==
  IF registros_originales > 0
  THEN [num |-> eliminados * 100, den |-> registros_originales]
  ELSE [num |-> 0, den |-> 1]

estadisticas_de_finales(registros_originales, registros_finales) ==
  LET pct == porcentaje(registros_finales, registros_originales)
  IN [originales |-> registros_originales, finales |-> registros_finales,
      eliminados |-> registros_finales,
      pct_num |-> pct.num, pct_den |-> pct.den]

estadisticas(registros_originales, registros_finales) ==
  LET eliminados == registros_originales - registros_finales
      pct == porcentaje(eliminados, registros_originales)
  IN [originales |-> registros_originales, finales |-> registros_finales,
      eliminados |-> eliminados,
      pct_num |-> pct.num, pct_den |-> pct.den]

\* Lines 108-123: date conversion and sort when a date column was resolved,
\* then keep-first deduplication.
ordenar_y_limpiar(rows, d, hay_fecha, f) ==
  IF hay_fecha
  THEN drop_duplicates(sort_values(convertir_fechas(rows, f), d, f), d)
  ELSE drop_duplicates(rows, d)

\* The labels of the table that is returned.
columnas_de_salida(trabajadas) == trabajadas

\* Lines 69-95 and the two label look-ups that follow: the labels
\* normalized, the two columns resolved, the renames, and whether
\* df['doc_id'] and df['fecha'] each name exactly one column.
resolver_columnas(columns) ==
  LET cols0 == [i \in 1..Len(columns) |-> normalizar_nombre_columna(columns[i])]
      col_documento == buscar_columna(cols0, CANDIDATOS_DOCUMENTO)
      col_fecha0 == buscar_columna(cols0, CANDIDATOS_FECHA)
      hay_documento == ~es_falsy(col_documento)
      hay_fecha == hay_documento /\ ~es_falsy(col_fecha0)
      cols1 == IF hay_documento THEN rename(cols0, col_documento.col, DOC_ID) ELSE cols0
      cols2 == IF hay_fecha THEN rename(cols1, col_fecha0.col, FECHA) ELSE cols1
  IN [cols0 |-> cols0,
      col_documento |-> col_documento,
      col_fecha0 |-> col_fecha0,
      hay_documento |-> hay_documento,
      hay_fecha |-> hay_fecha,
      cols2 |-> cols2,
      n_doc_id |-> cuenta(cols2, DOC_ID),
      n_fecha |-> cuenta(cols2, FECHA)]

procesar_con(t, c) ==
  LET registros_originales == Len(t.rows)
  IN
  IF ~c.hay_documento
  THEN [SinCorrida EXCEPT !.log = <<"error_sin_documento", "info_columnas">>,
                          !.info_columnas = c.cols0,
                          !.col_documento = c.col_documento,
                          !.col_fecha = c.col_fecha0]
  ELSE
    LET hay_fecha == c.hay_fecha
        col_fecha == IF hay_fecha THEN c.col_fecha0 ELSE Ninguno
        log0 == (IF hay_fecha THEN <<>> ELSE <<"warning_sin_fecha">>)
                  \o <<"status_procesando", "analizando">>
        base == [SinCorrida EXCEPT !.col_documento = c.col_documento,
                                   !.col_fecha = col_fecha]
    IN
    IF c.n_doc_id # 1
    THEN \* df[...]['doc_id'] is a DataFrame: formatting its nunique() raises.
         [base EXCEPT !.log = log0 \o <<"error_procesamiento">>]
    ELSE
      LET d == indice(c.cols2, DOC_ID)
          marcados == duplicated(t.rows, d)
          duplicados_antes == Cardinality(marcados)
          docs_duplicados == nunique(t.rows, d, marcados)
          log1 == log0 \o <<"docs_duplicados", "registros_duplicados">>
          contado == [base EXCEPT !.docs_duplicados = docs_duplicados,
                                  !.duplicados_antes = duplicados_antes]
      IN
      IF hay_fecha /\ c.n_fecha # 1
      THEN \* df['fecha'] is missing (KeyError) or a DataFrame (ValueError).
           [contado EXCEPT !.log = log1 \o <<"procesando_fechas", "error_procesamiento">>]
      ELSE
        LET f == IF hay_fecha THEN indice(c.cols2, FECHA) ELSE 0
            limpio == ordenar_y_limpiar(t.rows, d, hay_fecha, f)
            log2 == log1
                      \o (IF hay_fecha THEN <<"procesando_fechas", "ordenando">> ELSE <<>>)
                      \o <<"eliminando", "status_completado", "success", "metricas">>
        IN [contado EXCEPT !.ok = TRUE,
                           !.tabla = [cols |-> columnas_de_salida(c.cols2),
                                      rows |-> limpio],
                           !.log = log2,
                           !.stats = estadisticas(registros_originales, Len(limpio))]

(***************************************************************************)
(* Inputs.  Encabezados are the header rows tried; every cell of every     *)
(* row is drawn from Celdas, and a table read from a file carries the      *)
(* index 0, 1, 2, ...                                                      *)
(***************************************************************************)
L_ID == <<"I", "D">>
L_id_sp == <<"i", "d", " ">>
L_Cedula == <<"C", "e", "d", "u", "l", "a">>
L_DNI == <<"D", "N", "I">>
L_Documento == <<"D", "o", "c", "u", "m", "e", "n", "t", "o">>
L_DoctoIdent == <<"D", "o", "c", "t", "o", " ", "I", "d", "e", "n", "t">>
L_FIngreso == <<" ", "F", " ", "I", "n", "g", "r", "e", "s", "o", " ">>
L_Fecha == <<"F", "e", "c", "h", "a">>
L_FechaId == <<"F", "e", "c", "h", "a", " ", "I", "d">>
L_Nombre == <<"N", "o", "m", "b", "r", "e">>
L_Cargo == <<"C", "a", "r", "g", "o">>
L_Blanco == <<" ">>

\* Header rows of at most two columns, loaded with up to MaxRows rows.
Encabezados ==
  { <<>>, <<L_Nombre>>, <<L_ID>>, <<L_FechaId>>, <<L_Blanco>>,
    <<L_Cedula, L_FIngreso>>,
    <<L_FechaId, FECHA>> }

\* Header rows of three columns, loaded with up to MaxRowsAncho rows.
EncabezadosAnchos ==
  { <<L_Nombre, L_Documento, L_FIngreso>>,
    <<L_FechaId, L_FIngreso, FECHA>>,
    <<L_FIngreso, L_Fecha, L_ID>>,
    <<L_Nombre, L_Cedula, DOC_ID>>,
    <<L_Blanco, L_ID, L_Fecha>>,
    <<L_Nombre, L_ID, L_Cargo>>,
    <<L_Cargo, L_Fecha, L_DNI>> }

\* Header rows tried on buscar_columna alone.
EncabezadosBuscar ==
  Encabezados \cup EncabezadosAnchos
    \cup { <<L_Nombre, L_Cargo>>, <<L_ID, L_Nombre>>, <<L_Fecha, L_DNI>>, <<DOC_ID, FECHA>>, <<L_ID, L_id_sp>>,
           <<L_Cedula, DOC_ID>>, <<L_Blanco, L_ID>>,
           <<L_Documento, L_DoctoIdent>>, <<L_Nombre, L_DoctoIdent, L_Documento>> }

max_filas(h) == IF Len(h) > 2 THEN MaxRowsAncho ELSE MaxRows

\* The rows of a table read from a file: the index is 0, 1, 2, ...
filas(celdas) == [k \in 1..Len(celdas) |-> [idx |-> k - 1, celdas |-> celdas[k]]]

\* The header rows the engine can meet: those loaded, and those of the tables
\* it returns.
EncabezadosDeTrabajo ==
  LET cargados == Encabezados \cup EncabezadosAnchos
  IN cargados \cup {resolver_columnas(h).cols2 : h \in cargados}

\* resolver_columnas, computed once for each header row.
ResolucionDe == [h \in EncabezadosDeTrabajo |-> resolver_columnas(h)]

procesar_duplicados_optimizado(t) == procesar_con(t, ResolucionDe[t.cols])

\* Candidate lists tried on buscar_columna alone.
Posibles ==
  {CANDIDATOS_DOCUMENTO[i] : i \in 1..Len(CANDIDATOS_DOCUMENTO)}
    \cup {CANDIDATOS_FECHA[i] : i \in 1..Len(CANDIDATOS_FECHA)}

ListasCandidatos ==
  {CANDIDATOS_DOCUMENTO, CANDIDATOS_FECHA}
    \cup UNION { [1..m -> Posibles] : m \in 0..MaxCandidatos }

SinBusqueda == [hecho |-> FALSE, r |-> Ninguno]

(***************************************************************************)
(* The engine: a table is loaded, processed, and the table returned is     *)
(* processed again.                                                        *)
(***************************************************************************)
Init ==
  /\ \E h \in Encabezados \cup EncabezadosAnchos :
       \E m \in 0..max_filas(h) :
       \E c \in [1..m -> [1..Len(h) -> Celdas]] :
         df = [cols |-> h, rows |-> filas(c)]
  /\ pc = "cargado"
  /\ run1 = SinCorrida
  /\ run2 = SinCorrida
  /\ columnas = <<>>
  /\ candidatos = <<>>
  /\ hallado = SinBusqueda

\* main(), line 228: procesar_duplicados_optimizado(df.copy())
Procesar ==
  /\ pc = "cargado"
  /\ run1' = procesar_duplicados_optimizado(df)
  /\ pc' = "procesado"
  /\ UNCHANGED <<df, run2, columnas, candidatos, hallado>>

\* The returned table given to procesar_duplicados_optimizado again.
Reprocesar ==
  /\ pc = "procesado"
  /\ run1.ok
  /\ run2' = procesar_duplicados_optimizado(run1.tabla)
  /\ pc' = "reprocesado"
  /\ UNCHANGED <<df, run1, columnas, candidatos, hallado>>

Next == Procesar \/ Reprocesar

Spec == Init /\ [][Next]_vars

(***************************************************************************)
(* buscar_columna on its own, on any header row and candidate list.        *)
(***************************************************************************)
InitBuscar ==
  /\ df = TablaVacia
  /\ pc = "buscar"
  /\ run1 = SinCorrida
  /\ run2 = SinCorrida
  /\ columnas \in EncabezadosBuscar
  /\ candidatos \in ListasCandidatos
  /\ hallado = SinBusqueda

BuscarColumna ==
  /\ pc = "buscar"
  /\ ~hallado.hecho
  /\ hallado' = [hecho |-> TRUE, r |-> buscar_columna(columnas, candidatos)]
  /\ UNCHANGED <<df, pc, run1, run2, columnas, candidatos>>

NextBuscar == BuscarColumna

SpecBuscar == InitBuscar /\ [][NextBuscar]_vars

(***************************************************************************)
(* Vocabulary of the properties.                                           *)
(***************************************************************************)
\* The calls made so far, each with the table it was given.
Corridas ==
  (IF pc \in {"procesado", "reprocesado"} THEN {[t |-> df, r |-> run1]} ELSE {})
    \cup (IF pc = "reprocesado" THEN {[t |-> run1.tabla, r |-> run2]} ELSE {})

Exitosas == {x \in Corridas : x.r.ok}

ConFecha == {x \in Exitosas : x.r.col_fecha.hay}

Normalizadas(cols) == [i \in 1..Len(cols) |-> normalizar_nombre_columna(cols[i])]

\* a is a substring of b.
EsSubcadena(a, b) ==
  \E i \in 1..(Len(b) + 1) : i + Len(a) - 1 <= Len(b) /\ SubSeq(b, i, i + Len(a) - 1) = a

SinEspacios(a) == SelectSeq(a, LAMBDA c : c # " ")

\* The matching rule: a normalized label against a candidate.
Casa(etiqueta, candidato) ==
  \/ EsSubcadena(candidato, etiqueta)
  \/ EsSubcadena(etiqueta, candidato)
  \/ SinEspacios(etiqueta) = SinEspacios(candidato)

\* The positions of the columns that match some candidate of the list.
Coincidentes(cols, lista) ==
  {i \in 1..Len(cols) :
     \E j \in 1..Len(lista) : Casa(normalizar_nombre_columna(cols[i]), lista[j])}

Minimo(S) == CHOOSE i \in S : \A k \in S : i <= k

\* The normalized labels of each header row met.
NormalizadasDe == [h \in EncabezadosDeTrabajo |-> Normalizadas(h)]

\* Position of the left-most column of t carrying the (normalized) label.
PosEtiqueta(t, etiqueta) ==
  LET cols == NormalizadasDe[t.cols]
  IN Minimo({i \in 1..Len(cols) : cols[i] = etiqueta})

\* The identity column of a successful call.
PosDoc(x) == PosEtiqueta(x.t, x.r.col_documento.col)

\* The column a successful call converts to dates and sorts on: the one
\* labelled 'fecha' after the renames.  It is the column the date search
\* returned, unless that search returned the identity column itself.
PosFecha(x) ==
  LET d == PosDoc(x)
      cols == NormalizadasDe[x.t.cols]
  IN CHOOSE i \in 1..Len(cols) : i # d /\ cols[i] \in {x.r.col_fecha.col, FECHA}

Posiciones(t) == 1..Len(t.rows)

\* Position, in the table given, of the row carrying index label idx.
PosEntrada(t, idx) == CHOOSE k \in Posiciones(t) : t.rows[k].idx = idx

\* The normalized date of a cell: a date, or NoFecha.
NoFecha == NaT
FechaNormalizada(v) == IF v \in 1..MaxFecha THEN v ELSE NoFecha

\* The positions of the rows of t whose cell in column d is v.
Grupo(t, d, v) == {k \in Posiciones(t) : t.rows[k].celdas[d] = v}

\* Position in the table given of each row of the table returned, in order.
Origen(x) ==
  [k \in 1..Len(x.r.tabla.rows) |-> PosEntrada(x.t, x.r.tabla.rows[k].idx)]

\* Header rows no column of which matches a date candidate.
SinColumnaDeFecha ==
  {h \in EncabezadosDeTrabajo : Coincidentes(h, CANDIDATOS_FECHA) = {}}

\* Header rows no column of which matches an identity candidate.
SinColumnaDeDocumento ==
  {h \in EncabezadosDeTrabajo : Coincidentes(h, CANDIDATOS_DOCUMENTO) = {}}

(***************************************************************************)
(* C1.  Whenever a call returns a table, the identity values of the table  *)
(* returned are exactly the identity values of the table given, and no     *)
(* two rows returned share an identity value.                              *)
(***************************************************************************)
C1_IdentidadesUnaVez ==
  \A x \in Exitosas :
    LET sal == x.r.tabla.rows
        d == PosDoc(x)
    IN /\ {sal[k].celdas[d] : k \in 1..Len(sal)}
            = {x.t.rows[k].celdas[d] : k \in Posiciones(x.t)}
       /\ \A i, j \in 1..Len(sal) : i # j => sal[i].celdas[d] # sal[j].celdas[d]

C1_Testigo ==
  /\ pc = "procesado" /\ run1.ok /\ ~run1.col_fecha.hay
  /\ Len(df.rows) = 3 /\ Len(run1.tabla.rows) = 2
  /\ df.rows[1].celdas[1] = df.rows[3].celdas[1]

(***************************************************************************)
(* C2.  With a date column, the row returned for an identity value is a    *)
(* row of that identity's group in the table given, and it carries the     *)
(* latest date of the group; it carries no date only when no row of the    *)
(* group has one.                                                          *)
(***************************************************************************)
C2_MasRecienteGana ==
  \A x \in ConFecha :
    LET d == PosDoc(x)
        f == PosFecha(x)
        origen == Origen(x)
    IN \A k \in 1..Len(x.r.tabla.rows) :
         LET o == x.t.rows[origen[k]]
             g == Grupo(x.t, d, x.r.tabla.rows[k].celdas[d])
             fechas == {FechaNormalizada(x.t.rows[i].celdas[f]) : i \in g} \ {NoFecha}
             fecha_o == FechaNormalizada(o.celdas[f])
         IN /\ origen[k] \in g
            /\ x.r.tabla.rows[k].celdas[f] = fecha_o
            /\ IF fechas = {}
               THEN fecha_o = NoFecha
               ELSE fecha_o \in fechas /\ \A v \in fechas : v <= fecha_o

\* A dateless row comes first in the file, a dated row of the same identity
\* last, and the dated one is returned.
C2_Testigo ==
  /\ pc = "procesado" /\ run1.ok /\ run1.col_fecha.hay
  /\ df.cols = <<L_Cedula, L_FIngreso>>
  /\ Len(df.rows) = 3
  /\ df.rows[1].celdas = <<1, Texto>>
  /\ df.rows[2].celdas = <<1, 1>>
  /\ df.rows[3].celdas = <<1, 2>>
  /\ Len(run1.tabla.rows) = 1 /\ run1.tabla.rows[1].idx = 2

(***************************************************************************)
(* C3.  When no column matches a date candidate, the rows returned are     *)
(* the first occurrences of each identity value, unchanged and in the      *)
(* order of the table given.                                               *)
(***************************************************************************)
C3_PrimeraAparicion ==
  \A x \in Exitosas :
    x.t.cols \in SinColumnaDeFecha =>
      LET d == PosDoc(x)
          origen == Origen(x)
          sal == x.r.tabla.rows
      IN /\ \A k \in 1..Len(sal) :
              /\ sal[k] = x.t.rows[origen[k]]
              /\ origen[k] = Minimo(Grupo(x.t, d, sal[k].celdas[d]))
         /\ \A i, j \in 1..Len(sal) : i < j => origen[i] < origen[j]

C3_Testigo ==
  /\ pc = "procesado" /\ run1.ok
  /\ df.cols = <<L_ID>>
  /\ Len(df.rows) = 3
  /\ df.rows[1].celdas[1] = 2 /\ df.rows[2].celdas[1] = 1 /\ df.rows[3].celdas[1] = 2
  /\ Len(run1.tabla.rows) = 2
  /\ run1.tabla.rows[1].idx = 0 /\ run1.tabla.rows[2].idx = 1

(***************************************************************************)
(* C4.  With a date column, among the rows of the table given that share   *)
(* the identity value and the normalized date of a row returned, the row   *)
(* returned is the earliest: the sort keeps tied rows in source order.     *)
(***************************************************************************)
C4_EmpateElPrimero ==
  \A x \in ConFecha :
    LET d == PosDoc(x)
        f == PosFecha(x)
        origen == Origen(x)
    IN \A k \in 1..Len(x.r.tabla.rows) :
         LET o == x.t.rows[origen[k]]
         IN \A i \in Grupo(x.t, d, o.celdas[d]) :
              FechaNormalizada(x.t.rows[i].celdas[f]) = FechaNormalizada(o.celdas[f])
                => origen[k] <= i

\* Two rows tied on identity and date around a row of earlier date.
C4_Testigo ==
  /\ pc = "procesado" /\ run1.ok /\ run1.col_fecha.hay
  /\ df.cols = <<L_Cedula, L_FIngreso>>
  /\ Len(df.rows) = 3
  /\ df.rows[1].celdas = <<1, 2>>
  /\ df.rows[2].celdas = <<1, 1>>
  /\ df.rows[3].celdas = <<1, 2>>
  /\ Len(run1.tabla.rows) = 1 /\ run1.tabla.rows[1].idx = 0

(***************************************************************************)
(* C5.  The table returned carries the column labels of the table loaded,  *)
(* in the same order.                                                      *)
(***************************************************************************)
C5_EncabezadosIguales ==
  pc # "cargado" /\ run1.ok => run1.tabla.cols = df.cols

(***************************************************************************)
(* C6.  Whenever some column of the table loaded matches an identity       *)
(* candidate, the call returns a table.                                    *)
(***************************************************************************)
C6_SoloFallaSinDocumento ==
  pc # "cargado" /\ df.cols \notin SinColumnaDeDocumento => run1.ok

(***************************************************************************)
(* C7.  When no column matches an identity candidate, the call returns no  *)
(* table, shows the error and the list of the (normalized) labels of all   *)
(* the columns, and shows or computes nothing else: no status, no counts,  *)
(* no date or sort step, no deduplication, no statistics.                  *)
(***************************************************************************)
C7_SinDocumentoTermina ==
  pc # "cargado" /\ df.cols \in SinColumnaDeDocumento =>
    /\ ~run1.ok
    /\ run1.tabla = TablaVacia
    /\ run1.log = <<"error_sin_documento", "info_columnas">>
    /\ run1.info_columnas = NormalizadasDe[df.cols]
    /\ run1.stats = SinEstadisticas
    /\ run1.docs_duplicados = 0 /\ run1.duplicados_antes = 0

C7_Testigo ==
  /\ pc = "procesado"
  /\ df.cols = <<L_Nombre>>
  /\ Len(df.rows) = 3
  /\ df.rows[1].celdas = df.rows[2].celdas
  /\ ~run1.ok

(***************************************************************************)
(* C8.  Whenever a call returns a table, the statistics shown are the row  *)
(* counts of the table given and of the table returned, finales is at      *)
(* most originales, finales + eliminados = originales, the percentage is   *)
(* eliminados * 100 / originales, and it is 0 (and the table returned is   *)
(* empty) when the table given has no rows.                                *)
(***************************************************************************)
C8_Estadisticas ==
  \A x \in Exitosas :
    LET e == x.r.stats
    IN /\ e.originales = Len(x.t.rows)
       /\ e.finales = Len(x.r.tabla.rows)
       /\ e.finales <= e.originales
       /\ e.finales + e.eliminados = e.originales
       /\ e.pct_den > 0
       /\ (e.originales > 0 =>
             e.pct_num * e.originales = e.eliminados * 100 * e.pct_den)
       /\ (e.originales = 0 => e.finales = 0 /\ e.pct_num = 0)
       /\ \E k \in 1..Len(x.r.log) : x.r.log[k] = "metricas"

\* Three rows, two removed; and the call on a table of no rows is C8_TestigoVacio.
C8_Testigo ==
  /\ pc = "procesado" /\ run1.ok
  /\ run1.stats.originales = 3 /\ run1.stats.eliminados = 2

C8_TestigoVacio ==
  /\ pc = "procesado" /\ run1.ok
  /\ df.rows = <<>> /\ run1.tabla.rows = <<>> /\ run1.stats.pct_num = 0

(***************************************************************************)
(* C9.  The table returned, given to the engine again, is returned         *)
(* unchanged: the second call succeeds, resolves the identity and the      *)
(* date column at the positions the first call resolved them at, removes   *)
(* no row, and returns the same rows in the same order under the same      *)
(* labels.                                                                 *)
(***************************************************************************)
C9_Idempotente ==
  pc = "reprocesado" =>
    /\ run2.ok
    /\ LET x1 == [t |-> df, r |-> run1]
           x2 == [t |-> run1.tabla, r |-> run2]
       IN /\ PosDoc(x2) = PosDoc(x1)
          /\ run2.col_fecha.hay = run1.col_fecha.hay
          /\ run2.col_fecha.hay =>
               (PosEtiqueta(x2.t, run2.col_fecha.col)
                  = PosEtiqueta(x1.t, run1.col_fecha.col))
    /\ run2.stats.eliminados = 0
    /\ run2.tabla = run1.tabla

\* The parts of C9, apart.
C9_SegundaExitosa == pc = "reprocesado" => run2.ok

C9_MismaTabla ==
  pc = "reprocesado" /\ run2.ok =>
    run2.stats.eliminados = 0 /\ run2.tabla = run1.tabla

C9_MismaColumnaDocumento ==
  pc = "reprocesado" /\ run2.ok =>
    PosDoc([t |-> run1.tabla, r |-> run2]) = PosDoc([t |-> df, r |-> run1])

C9_MismaColumnaFecha ==
  pc = "reprocesado" /\ run2.ok =>
    /\ run2.col_fecha.hay = run1.col_fecha.hay
    /\ run2.col_fecha.hay =>
         (PosEtiqueta(run1.tabla, run2.col_fecha.col)
            = PosEtiqueta(df, run1.col_fecha.col))

(***************************************************************************)
(* C10.  buscar_columna returns the left-most column that some candidate   *)
(* of the list matches, whatever the place of that candidate in the list,  *)
(* returns nothing exactly when no column matches a candidate, and leaves  *)
(* the columns and the candidate list as they were.                        *)
(***************************************************************************)
C10_ResultadoBuscar ==
  hallado.hecho =>
    LET c == Coincidentes(columnas, candidatos)
    IN IF c = {}
       THEN ~hallado.r.hay
       ELSE hallado.r.hay /\ hallado.r.col = columnas[Minimo(c)]

C10_BuscarColumna ==
  /\ []C10_ResultadoBuscar
  /\ [][columnas' = columnas /\ candidatos' = candidatos]_vars

\* The left-most matching column is matched only by a later candidate than
\* the one that matches a column to its right.
C10_Testigo ==
  /\ hallado.hecho
  /\ columnas = <<L_Nombre, L_DoctoIdent, L_Documento>>
  /\ candidatos = <<CANDIDATOS_DOCUMENTO[4], CANDIDATOS_DOCUMENTO[7]>>
  /\ hallado.r = [hay |-> TRUE, col |-> L_DoctoIdent]

====
